---- MODULE Spec2Model ----
(* A model of garysong93/pass-gen:                                         *)
(*   src/src/utils/passwordGenerator.js  generatePassword,                 *)
(*       calculatePasswordStrength, getCharSetSize, getStrengthLabel       *)
(*   src/src/App.jsx                     the App component's state         *)
(*                                                                         *)
(* A JavaScript string is modelled as a sequence of UTF-16 code units,     *)
(* each code unit written as a one-character TLA+ string.  The grave       *)
(* accent and the surrogate code units cannot be written inside a TLA+     *)
(* string and are named "U+0060", "U+D83D", "U+D83E", "U+DE00", "U+DD00".  *)
(* A JavaScript number that is not an integer is modelled in fixed point,  *)
(* in units of 1/Micro.  A Uint32 is modelled as two 16-bit halves, since  *)
(* the model checker's integers are 32-bit signed.                         *)
EXTENDS Integers, Sequences, FiniteSets, TLC

VARIABLES
  pc, frame, ret,                         \* one call of generatePassword
  mounted, options, password, strength,   \* the App component
  pending,                                \* effects queued by React
  spw, sreport, sprev, sop,               \* calls of calculatePasswordStrength
  labelLog                                \* calls of getStrengthLabel

genVars   == <<pc, frame, ret>>
appVars   == <<mounted, options, password, strength, pending>>
scoreVars == <<spw, sreport, sprev, sop>>
vars      == <<pc, frame, ret, mounted, options, password, strength, pending,
               spw, sreport, sprev, sop, labelLog>>

-----------------------------------------------------------------------------
(* Bounds of the model.                                                    *)

\* direct calls of generatePassword use length 0..MaxLength
MaxLength == 3
\* the strings scored have at most MaxUnits code units
MaxUnits == 20
\* ... with at most MaxFresh distinct characters of each class
MaxFresh == 3
\* at most MaxCalls calls of getStrengthLabel are recorded
MaxCalls == 2

-----------------------------------------------------------------------------
(* JavaScript values.                                                      *)

Undefined == "undefined"
Micro     == 1000 * 1000

Min(a, b) == IF a < b THEN a ELSE b
Max(a, b) == IF a > b THEN a ELSE b

Range(s) == {s[k] : k \in 1..Len(s)}

\* a Uint32 as [hi, lo], value hi * 65536 + lo
Uint32(h, l) == [hi |-> h, lo |-> l]

\* (a Uint32) % m, as randomValues[0] % charSet.length computes it
Mod32(r, m) == (((r.hi % m) * (65536 % m)) + (r.lo % m)) % m

\* (a Uint32 + s) wrapped to 32 bits
Add32(r, s) ==
  LET l == r.lo + s
  IN  Uint32((r.hi + (l \div 65536)) % 65536, l % 65536)

-----------------------------------------------------------------------------
(* passwordGenerator.js: the character tables of generatePassword.         *)

UppercaseChars(excludeSimilar) ==
  IF excludeSimilar
  THEN <<"A", "B", "C", "D", "E", "F", "G", "H", "J", "K", "L", "M", "N",
         "P", "Q", "R", "S", "T", "U", "V", "W", "X", "Y", "Z">>
  ELSE <<"A", "B", "C", "D", "E", "F", "G", "H", "I", "J", "K", "L", "M",
         "N", "O", "P", "Q", "R", "S", "T", "U", "V", "W", "X", "Y", "Z">>

LowercaseChars(excludeSimilar) ==
  IF excludeSimilar
  THEN <<"a", "b", "c", "d", "e", "f", "g", "h", "i", "j", "k", "m", "n",
         "o", "p", "q", "r", "s", "t", "u", "v", "w", "x", "y", "z">>
  ELSE <<"a", "b", "c", "d", "e", "f", "g", "h", "i", "j", "k", "l", "m",
         "n", "o", "p", "q", "r", "s", "t", "u", "v", "w", "x", "y", "z">>

\* the digits with excludeSimilar ignored
NumberCharsFull(excludeSimilar) ==
  <<"0", "1", "2", "3", "4", "5", "6", "7", "8", "9">>

NumberChars(excludeSimilar) ==
  IF excludeSimilar
  THEN <<"2", "3", "4", "5", "6", "7", "8", "9">>
  ELSE <<"0", "1", "2", "3", "4", "5", "6", "7", "8", "9">>

SymbolChars(excludeAmbiguous) ==
  IF excludeAmbiguous
  THEN <<"!", "@", "#", "$", "%", "^", "&", "*", "(", ")", "_", "+", "-",
         "=", "[", "]", "{", "}", "|", ";", ":", ",", ".", "<", ">", "?">>
  ELSE <<"!", "@", "#", "$", "%", "^", "&", "*", "(", ")", "_", "+", "-",
         "=", "[", "]", "{", "}", "|", ";", ":", ",", ".", "<", ">", "?",
         "/", "~", "U+0060">>

\* the destructuring defaults of generatePassword
OptionDefaults ==
  [length |-> 16, includeUppercase |-> TRUE, includeLowercase |-> TRUE,
   includeNumbers |-> TRUE, includeSymbols |-> TRUE,
   excludeSimilar |-> FALSE, excludeAmbiguous |-> FALSE]

OptionKeys == DOMAIN OptionDefaults

\* an options object is a function on the keys it has; a key it lacks
\* reads as undefined and takes the default
Destructure(opts) ==
  [k \in OptionKeys |-> IF k \in DOMAIN opts THEN opts[k] ELSE OptionDefaults[k]]

\* lines 48-64: charSet built by concatenation
BuildCharSet(o) ==
  (IF o.includeUppercase THEN UppercaseChars(o.excludeSimilar) ELSE <<>>)
  \o (IF o.includeLowercase THEN LowercaseChars(o.excludeSimilar) ELSE <<>>)
  \o (IF o.includeNumbers THEN NumberChars(o.excludeSimilar) ELSE <<>>)
  \o (IF o.includeSymbols THEN SymbolChars(o.excludeAmbiguous) ELSE <<>>)

\* the validation left out
CharSetIsEmptyNever(charSet) == FALSE

\* line 67: the condition under which generatePassword throws
CharSetIsEmpty(charSet) == Len(charSet) = 0

\* the text appended by  password += undefined
UndefinedText == <<"u", "n", "d", "e", "f", "i", "n", "e", "d">>

\* getRandomChar, given the value getRandomValues(1)[0] returned; with an
\* empty charSet the index is NaN and charSet[NaN] is undefined
GetRandomChar(charSet, r) ==
  IF Len(charSet) = 0
  THEN UndefinedText
  ELSE <<charSet[Mod32(r, Len(charSet)) + 1]>>

\* the loop running once too often
LoopCondOffByOne(i, length) == i <= length

\* line 73: the loop condition
LoopCond(i, length) == i < length

\* the frame of a call after the charSet is validated (lines 72-73)
NewFrame(o, charSet, seed, stride) ==
  [o |-> o, length |-> o.length, charSet |-> charSet, i |-> 0,
   password |-> <<>>, rand |-> seed, stride |-> stride, draws |-> 0]

\* lines 73-75: one iteration of the loop; the random source returns
\* rand and moves on by stride
LoopBody(f) ==
  [f EXCEPT !.password = f.password \o GetRandomChar(f.charSet, f.rand),
            !.rand = Add32(f.rand, f.stride),
            !.draws = f.draws + 1,
            !.i = f.i + 1]

RECURSIVE RunLoop(_)
RunLoop(f) == IF LoopCond(f.i, f.length) THEN RunLoop(LoopBody(f)) ELSE f

\* the random sources: a first value and the step between successive values
RandSeeds   == {Uint32(4660, 22136), Uint32(65535, 65535)}
RandStrides == {0, 1}

\* generatePassword run to completion, as a caller sees it
GeneratePassword(opts, seed, stride) ==
  LET o       == Destructure(opts)
      charSet == BuildCharSet(o)
  IN  IF CharSetIsEmpty(charSet)
      THEN [thrown |-> TRUE, value |-> <<>>]
      ELSE [thrown |-> FALSE,
            value |-> RunLoop(NewFrame(o, charSet, seed, stride)).password]

-----------------------------------------------------------------------------
(* passwordGenerator.js: calculatePasswordStrength and getCharSetSize.     *)

LowerAZ == Range(LowercaseChars(FALSE))
UpperAZ == Range(UppercaseChars(FALSE))
Digit09 == Range(NumberChars(FALSE))

\* the four regular expressions, tested against the code units
HasLower(p)  == \E k \in 1..Len(p) : p[k] \in LowerAZ
HasUpper(p)  == \E k \in 1..Len(p) : p[k] \in UpperAZ
HasDigit(p)  == \E k \in 1..Len(p) : p[k] \in Digit09
HasSymbol(p) == \E k \in 1..Len(p) : p[k] \notin (LowerAZ \cup UpperAZ \cup Digit09)

HighSurrogates == {"U+D83D", "U+D83E"}
LowSurrogates  == {"U+DE00", "U+DD00"}

\* the string iterator used by  new Set(password): a high surrogate
\* followed by a low surrogate is one element
RECURSIVE CodePoints(_)
CodePoints(p) ==
  IF Len(p) = 0 THEN {}
  ELSE IF Len(p) >= 2 /\ p[1] \in HighSurrogates /\ p[2] \in LowSurrogates
       THEN {<<p[1], p[2]>>} \cup CodePoints(SubSeq(p, 3, Len(p)))
       ELSE {<<p[1]>>} \cup CodePoints(Tail(p))

UniqueChars(p) == Cardinality(CodePoints(p))

getCharSetSize(p) ==
  (IF HasLower(p) THEN 26 ELSE 0) + (IF HasUpper(p) THEN 26 ELSE 0)
  + (IF HasDigit(p) THEN 10 ELSE 0) + (IF HasSymbol(p) THEN 32 ELSE 0)

\* Math.log2 in units of 1/Micro, for the sizes getCharSetSize returns
Log2Micro(n) ==
  CASE n = 10 -> 3321928 [] n = 26 -> 4700439 [] n = 32 -> 5000000
    [] n = 36 -> 5169925 [] n = 42 -> 5392317 [] n = 52 -> 5700439
    [] n = 58 -> 5857980 [] n = 62 -> 5954196 [] n = 68 -> 6087462
    [] n = 84 -> 6392317 [] n = 94 -> 6554588

\* the feedback messages (lines 126-144), named in English
MsgLength8  == "use at least 8 characters"
MsgLength12 == "use 12 or more characters"
MsgLower    == "include a lowercase letter"
MsgUpper    == "include an uppercase letter"
MsgDigit    == "include a digit"
MsgSymbol   == "include a special character"
MsgUnique   == "use more distinct characters"

\* the threshold of "strong" mistyped
LevelOfStrongAt70(score) ==
  IF score >= 80 * Micro THEN "very-strong"
  ELSE IF score >= 70 * Micro THEN "strong"
  ELSE IF score >= 40 * Micro THEN "medium"
  ELSE "weak"

\* lines 118-122
LevelOf(score) ==
  IF score >= 80 * Micro THEN "very-strong"
  ELSE IF score >= 60 * Micro THEN "strong"
  ELSE IF score >= 40 * Micro THEN "medium"
  ELSE "weak"

\* uniqueChars / password.length, in units of 1/Micro
UniqueRatio(p) == (UniqueChars(p) * Micro) \div Len(p)

\* the clamp left out
ClampNone(score) == score

\* line 115
Clamp(score) == Min(Max(score, 0), 100 * Micro)

\* lines 90-115; the score is in units of 1/Micro
ScoreOf(p) ==
  LET n  == Len(p)
      s1 == (IF n >= 8 THEN 10 * Micro ELSE 0) + (IF n >= 12 THEN 10 * Micro ELSE 0)
            + (IF n >= 16 THEN 10 * Micro ELSE 0) + (IF n >= 20 THEN 10 * Micro ELSE 0)
      s2 == s1 + (IF HasLower(p) THEN 10 * Micro ELSE 0)
               + (IF HasUpper(p) THEN 10 * Micro ELSE 0)
               + (IF HasDigit(p) THEN 10 * Micro ELSE 0)
               + (IF HasSymbol(p) THEN 10 * Micro ELSE 0)
      s3 == s2 + Min((UniqueChars(p) * 20 * Micro) \div n, 20 * Micro)
      entropy == n * Log2Micro(getCharSetSize(p))
      s4 == s3 + Min(entropy \div 10, 10 * Micro)
  IN  Clamp(s4)

\* the second length test off by one
FeedbackOfUpTo12(p) ==
  (IF Len(p) < 8 THEN <<MsgLength8>> ELSE <<>>)
  \o (IF Len(p) <= 12 THEN <<MsgLength12>> ELSE <<>>)
  \o (IF ~HasLower(p) THEN <<MsgLower>> ELSE <<>>)
  \o (IF ~HasUpper(p) THEN <<MsgUpper>> ELSE <<>>)
  \o (IF ~HasDigit(p) THEN <<MsgDigit>> ELSE <<>>)
  \o (IF ~HasSymbol(p) THEN <<MsgSymbol>> ELSE <<>>)
  \o (IF UniqueRatio(p) < Micro \div 2 THEN <<MsgUnique>> ELSE <<>>)

\* lines 124-145
FeedbackOf(p) ==
  (IF Len(p) < 8 THEN <<MsgLength8>> ELSE <<>>)
  \o (IF Len(p) < 12 THEN <<MsgLength12>> ELSE <<>>)
  \o (IF ~HasLower(p) THEN <<MsgLower>> ELSE <<>>)
  \o (IF ~HasUpper(p) THEN <<MsgUpper>> ELSE <<>>)
  \o (IF ~HasDigit(p) THEN <<MsgDigit>> ELSE <<>>)
  \o (IF ~HasSymbol(p) THEN <<MsgSymbol>> ELSE <<>>)
  \o (IF UniqueRatio(p) < Micro \div 2 THEN <<MsgUnique>> ELSE <<>>)

calculatePasswordStrength(p) ==
  IF Len(p) = 0
  THEN [score |-> 0, level |-> "weak", feedback |-> <<>>]
  ELSE [score |-> ScoreOf(p), level |-> LevelOf(ScoreOf(p)),
        feedback |-> FeedbackOf(p)]

-----------------------------------------------------------------------------
(* passwordGenerator.js: getStrengthLabel.                                 *)

Levels == {"weak", "medium", "strong", "very-strong"}

\* the labels of the table (lines 167-170), named in English
LabelWeak       == "label weak"
LabelMedium     == "label medium"
LabelStrong     == "label strong"
LabelVeryStrong == "label very strong"

labels ==
  ("weak" :> LabelWeak) @@ ("medium" :> LabelMedium)
  @@ ("strong" :> LabelStrong) @@ ("very-strong" :> LabelVeryStrong)

\* what an object literal inherits from Object.prototype
ObjectPrototype ==
  ("constructor" :> "function Object") @@ ("toString" :> "function toString")
  @@ ("valueOf" :> "function valueOf")
  @@ ("hasOwnProperty" :> "function hasOwnProperty")
  @@ ("__proto__" :> "object Object.prototype")

\* obj[key] for an object literal: own properties first, then the prototype's
GetProperty(obj, key) ==
  IF key \in DOMAIN obj THEN obj[key]
  ELSE IF key \in DOMAIN ObjectPrototype THEN ObjectPrototype[key]
  ELSE Undefined

\* the left operand of  ||  is returned when it is truthy
Truthy(v) == v \notin {Undefined, ""}

getStrengthLabel(level) ==
  LET v == GetProperty(labels, level)
  IN  IF Truthy(v) THEN v ELSE LabelWeak

-----------------------------------------------------------------------------
(* Calls of generatePassword, one loop iteration at a time.                *)

Flags == {"includeUppercase", "includeLowercase", "includeNumbers",
          "includeSymbols", "excludeSimilar", "excludeAmbiguous"}

IncludeFlags == {"includeUppercase", "includeLowercase", "includeNumbers",
                 "includeSymbols"}

\* the object literal {}
EmptyOptions == [k \in {} |-> TRUE]

ConfigInputs ==
  [length : 0..MaxLength, includeUppercase : BOOLEAN,
   includeLowercase : BOOLEAN, includeNumbers : BOOLEAN,
   includeSymbols : BOOLEAN, excludeSimilar : BOOLEAN,
   excludeAmbiguous : BOOLEAN]
  \cup {EmptyOptions}

IdleFrame ==
  [o |-> OptionDefaults, length |-> 16, charSet |-> <<>>, i |-> 0,
   password |-> <<>>, rand |-> Uint32(0, 0), stride |-> 0, draws |-> 0]

\* generatePassword(opts) is called: lines 37-73
Call(opts, seed, stride) ==
  /\ pc = "idle"
  /\ LET o       == Destructure(opts)
         charSet == BuildCharSet(o)
     IN  IF CharSetIsEmpty(charSet)
         THEN /\ pc' = "thrown"
              /\ frame' = [IdleFrame EXCEPT !.o = o, !.length = o.length]
         ELSE /\ pc' = "loop"
              /\ frame' = NewFrame(o, charSet, seed, stride)
  /\ ret' = [returned |-> FALSE, value |-> <<>>]
  /\ UNCHANGED <<appVars, scoreVars, labelLog>>

\* lines 73-75
Step ==
  /\ pc = "loop"
  /\ LoopCond(frame.i, frame.length)
  /\ frame' = LoopBody(frame)
  /\ UNCHANGED <<pc, ret, appVars, scoreVars, labelLog>>

\* line 77
Return ==
  /\ pc = "loop"
  /\ ~LoopCond(frame.i, frame.length)
  /\ pc' = "returned"
  /\ ret' = [returned |-> TRUE, value |-> frame.password]
  /\ UNCHANGED <<frame, appVars, scoreVars, labelLog>>

\* the caller goes on after the call returned or threw
Reset ==
  /\ pc \in {"returned", "thrown"}
  /\ pc' = "idle"
  /\ frame' = IdleFrame
  /\ ret' = [returned |-> FALSE, value |-> <<>>]
  /\ UNCHANGED <<appVars, scoreVars, labelLog>>

-----------------------------------------------------------------------------
(* App.jsx.                                                                *)

ZeroReport == [score |-> 0, level |-> "weak", feedback |-> <<>>]

\* the catch block clearing the displayed password
generateNewPasswordClearing(opts, pw, st, seed, stride) ==
  LET r == GeneratePassword(opts, seed, stride)
  IN  IF r.thrown
      THEN <<r.value, st>>
      ELSE <<r.value, calculatePasswordStrength(r.value)>>

\* lines 32-41: the new <<password, strength>>
generateNewPassword(opts, pw, st, seed, stride) ==
  LET r == GeneratePassword(opts, seed, stride)
  IN  IF r.thrown
      THEN <<pw, st>>
      ELSE <<r.value, calculatePasswordStrength(r.value)>>

\* lines 22-29: both effects run after the first render
Mount ==
  /\ ~mounted
  /\ mounted' = TRUE
  /\ pending' = 2
  /\ UNCHANGED <<options, password, strength, genVars, scoreVars, labelLog>>

\* a queued effect runs generateNewPassword
RunEffect ==
  /\ pending > 0
  /\ \E seed \in RandSeeds, stride \in RandStrides :
       LET n == generateNewPassword(options, password, strength, seed, stride)
       IN  /\ password' = n[1]
           /\ strength' = n[2]
  /\ pending' = pending - 1
  /\ UNCHANGED <<mounted, options, genVars, scoreVars, labelLog>>

\* lines 44-49, and the effect of lines 27-29 it queues
handleOptionChange(key, value) ==
  /\ mounted
  /\ pending = 0
  /\ options' = [options EXCEPT ![key] = value]
  /\ pending' = 1
  /\ UNCHANGED <<mounted, password, strength, genVars, scoreVars, labelLog>>

DigitValue ==
  ("0" :> 0) @@ ("1" :> 1) @@ ("2" :> 2) @@ ("3" :> 3) @@ ("4" :> 4)
  @@ ("5" :> 5) @@ ("6" :> 6) @@ ("7" :> 7) @@ ("8" :> 8) @@ ("9" :> 9)

\* parseInt of a string of digits; NaN when no digit leads
RECURSIVE ParseDigits(_, _)
ParseDigits(s, acc) ==
  IF Len(s) = 0 \/ Head(s) \notin DOMAIN DigitValue THEN acc
  ELSE ParseDigits(Tail(s), 10 * acc + DigitValue[Head(s)])

ParseInt(s) ==
  IF Len(s) = 0 \/ Head(s) \notin DOMAIN DigitValue
  THEN [nan |-> TRUE, value |-> 0]
  ELSE [nan |-> FALSE, value |-> ParseDigits(s, 0)]

\* line 53-54: parseInt(e.target.value) || 16, then the clamp to [4, 128]
LengthFromInput(s) ==
  LET v      == ParseInt(s)
      length == IF v.nan \/ v.value = 0 THEN 16 ELSE v.value
  IN  Max(4, Min(128, length))

LengthInputs == {<<>>, <<"0">>, <<"3">>, <<"4">>, <<"5">>, <<"1", "6">>}

handleLengthChange(s) ==
  handleOptionChange("length", LengthFromInput(s))

\* the button of line 233
RegenerateClick ==
  /\ mounted
  /\ pending = 0
  /\ \E seed \in RandSeeds, stride \in RandStrides :
       LET n == generateNewPassword(options, password, strength, seed, stride)
       IN  /\ password' = n[1]
           /\ strength' = n[2]
  /\ UNCHANGED <<mounted, options, pending, genVars, scoreVars, labelLog>>

-----------------------------------------------------------------------------
(* Calls of calculatePasswordStrength on typed strings.  A string is some  *)
(* copies of "a", then characters not yet in it, class by class.           *)

FreshLower  == <<"b", "c", "d", "e", "f">>
FreshUpper  == <<"A", "B", "C", "D", "E">>
FreshDigit  == <<"0", "1", "2", "3", "4">>
FreshSymbol == <<"!", "[", "~", "?", "_">>

FreshChars ==
  SubSeq(FreshLower, 1, MaxFresh) \o SubSeq(FreshUpper, 1, MaxFresh)
  \o SubSeq(FreshDigit, 1, MaxFresh) \o SubSeq(FreshSymbol, 1, MaxFresh)

\* two characters outside the basic plane, two code units each
Astral == << <<"U+D83D", "U+DE00">>, <<"U+D83E", "U+DD00">> >>

IndexIn(seq, c) == IF \E k \in 1..Len(seq) : seq[k] = c
                   THEN CHOOSE k \in 1..Len(seq) : seq[k] = c
                   ELSE 0

\* the position in FreshChars of the last character typed, 0 if none
LastFresh == IF Len(spw) = 0 THEN 0 ELSE IndexIn(FreshChars, spw[Len(spw)])

Scored(p, op) ==
  /\ spw' = p
  /\ sreport' = calculatePasswordStrength(p)
  /\ sprev' = [password |-> spw, report |-> sreport]
  /\ sop' = op
  /\ UNCHANGED <<genVars, appVars, labelLog>>

TypeRepeat ==
  /\ Len(spw) < MaxUnits
  /\ \A k \in 1..Len(spw) : spw[k] = "a"
  /\ Scored(Append(spw, "a"), IF Len(spw) = 0 THEN "fresh" ELSE "repeat")

TypeFresh(j) ==
  /\ Len(spw) < MaxUnits
  /\ Range(spw) \cap LowSurrogates = {}
  /\ j > LastFresh
  /\ IF (j - 1) % MaxFresh = 0 THEN TRUE ELSE LastFresh = j - 1
  /\ Scored(Append(spw, FreshChars[j]), "fresh")

TypeAstral(j) ==
  /\ Len(spw) + 2 <= MaxUnits
  /\ \A k \in 1..Len(Astral) : k >= j => Astral[k][2] \notin Range(spw)
  /\ IF j = 1 THEN TRUE ELSE Astral[j - 1][2] \in Range(spw)
  /\ Scored(spw \o Astral[j], "fresh")

ClearInput ==
  /\ Len(spw) > 0
  /\ Scored(<<>>, "clear")

-----------------------------------------------------------------------------
(* Calls of getStrengthLabel.                                              *)

LevelInputs ==
  Levels \cup {"", Undefined, "Weak", "very strong", "constructor",
               "toString", "valueOf", "hasOwnProperty", "__proto__"}

CallLabel(level) ==
  /\ Len(labelLog) < MaxCalls
  /\ labelLog' = Append(labelLog, [level |-> level, label |-> getStrengthLabel(level)])
  /\ UNCHANGED <<genVars, appVars, scoreVars>>

ClearLog ==
  /\ Len(labelLog) > 0
  /\ labelLog' = <<>>
  /\ UNCHANGED <<genVars, appVars, scoreVars>>

-----------------------------------------------------------------------------
(* The specifications.                                                     *)

Init ==
  /\ pc = "idle"
  /\ frame = IdleFrame
  /\ ret = [returned |-> FALSE, value |-> <<>>]
  /\ mounted = FALSE
  /\ options = OptionDefaults
  /\ password = <<>>
  /\ strength = ZeroReport
  /\ pending = 0
  /\ spw = <<>>
  /\ sreport = calculatePasswordStrength(<<>>)
  /\ sprev = [password |-> <<>>, report |-> calculatePasswordStrength(<<>>)]
  /\ sop = "clear"
  /\ labelLog = <<>>

NextGen ==
  \/ \E opts \in ConfigInputs, seed \in RandSeeds, stride \in RandStrides :
       Call(opts, seed, stride)
  \/ Step
  \/ Return
  \/ Reset

NextApp ==
  \/ Mount
  \/ RunEffect
  \/ \E key \in Flags, value \in BOOLEAN : handleOptionChange(key, value)
  \/ \E s \in LengthInputs : handleLengthChange(s)
  \/ RegenerateClick

NextScore ==
  \/ TypeRepeat
  \/ \E j \in 1..Len(FreshChars) : TypeFresh(j)
  \/ \E j \in 1..Len(Astral) : TypeAstral(j)
  \/ ClearInput

NextLabel ==
  \/ \E level \in LevelInputs : CallLabel(level)
  \/ ClearLog

SpecGen   == Init /\ [][NextGen]_vars
SpecApp   == Init /\ [][NextApp]_vars
SpecScore == Init /\ [][NextScore]_vars
SpecLabel == Init /\ [][NextLabel]_vars

\* a call that has started keeps running: nothing suspends the loop
FairSpecGen == SpecGen /\ WF_vars(Step) /\ WF_vars(Return)

-----------------------------------------------------------------------------
(* generatePassword: the claims.                                           *)

AnyInclude(o) == \E k \in IncludeFlags : o[k]

\* the CharacterSet of a config: the union of the tables its flags select
DerivedSet(o) ==
  (IF o.includeUppercase THEN Range(UppercaseChars(o.excludeSimilar)) ELSE {})
  \cup (IF o.includeLowercase THEN Range(LowercaseChars(o.excludeSimilar)) ELSE {})
  \cup (IF o.includeNumbers THEN Range(NumberChars(o.excludeSimilar)) ELSE {})
  \cup (IF o.includeSymbols THEN Range(SymbolChars(o.excludeAmbiguous)) ELSE {})

C1_Result ==
  (pc # "idle" /\ frame.o.length >= 1 /\ AnyInclude(frame.o)) =>
    /\ pc # "thrown"
    /\ Len(frame.password) <= frame.o.length
    /\ pc = "returned" =>
         /\ ret.returned
         /\ Len(ret.value) = frame.o.length
         /\ \A k \in 1..Len(ret.value) : ret.value[k] \in DerivedSet(frame.o)

\* C1: with length >= 1 and some include-flag set, generatePassword
\* terminates (a call in its loop returns) and returns exactly `length`
\* characters, each a member of the config's CharacterSet
C1_LengthAndMembership ==
  /\ [](C1_Result)
  /\ (pc = "loop") ~> (pc = "returned")

C1_Witness ==
  /\ pc = "returned"
  /\ frame.o.length >= 2
  /\ frame.o.includeSymbols /\ ~frame.o.includeUppercase
  /\ Len(ret.value) = frame.o.length
  /\ ret.value[1] # ret.value[2]

\* C2: with all four include-flags false generatePassword throws at once:
\* no character is drawn from the random source and nothing is returned
C2_EmptyCharSetThrows ==
  (pc # "idle" /\ ~AnyInclude(frame.o)) =>
    /\ pc = "thrown"
    /\ frame.draws = 0
    /\ frame.password = <<>>
    /\ ~ret.returned
    /\ ret.value = <<>>

C2_Witness ==
  /\ pc = "thrown"
  /\ ~AnyInclude(frame.o)
  /\ frame.o.length = 2
  /\ frame.o.excludeSimilar /\ frame.o.excludeAmbiguous

AmbiguousSymbols == {"[", "]", "{", "}", "|", "<", ">", "/", "~", "U+0060"}

\* C3: with excludeAmbiguous=true no character of the returned password is
\* one of [ ] { } | < > / ~ and the grave accent
C3_NoAmbiguousSymbol ==
  (pc = "returned" /\ frame.o.excludeAmbiguous) =>
    \A k \in 1..Len(ret.value) : ret.value[k] \notin AmbiguousSymbols

SimilarChars == {"0", "O", "1", "l", "I"}

\* C4: with excludeSimilar=true no character of the returned password is
\* one of 0 O 1 l I, whatever excludeAmbiguous and includeSymbols are
C4_NoSimilarChar ==
  (pc = "returned" /\ frame.o.excludeSimilar) =>
    \A k \in 1..Len(ret.value) : ret.value[k] \notin SimilarChars

C4_Witness ==
  /\ pc = "returned"
  /\ frame.o.excludeSimilar /\ ~frame.o.excludeAmbiguous
  /\ frame.o.includeNumbers /\ ~frame.o.includeSymbols
  /\ Len(ret.value) = 2
  /\ ret.value[1] \in Digit09

-----------------------------------------------------------------------------
(* calculatePasswordStrength: the claims.                                  *)

\* C5 as stated: the score is an integer in [0,100], and the report of the
\* empty string is {score: 0, level: weak, feedback: []}
C5_ScoreIsInteger ==
  /\ sreport.score % Micro = 0
  /\ sreport.score >= 0 /\ sreport.score <= 100 * Micro
  /\ spw = <<>> => sreport = ZeroReport

\* C5 as amended: the score is a number in [0,100], not always an integer,
\* the level is one of the four levels, and the report of the empty string
\* is {score: 0, level: weak, feedback: []}
C5_ScoreInRange ==
  /\ sreport.score >= 0 /\ sreport.score <= 100 * Micro
  /\ sreport.level \in Levels
  /\ spw = <<>> => sreport = ZeroReport

C5_Witness ==
  /\ Len(spw) = MaxUnits
  /\ sreport.score = 100 * Micro
  /\ sprev.report.score < 100 * Micro
  /\ sprev.report.score % Micro # 0

Count(S) == Cardinality(S)

C6_LengthBonus(p) == 10 * Micro * Count({t \in {8, 12, 16, 20} : Len(p) >= t})

C6_ClassBonus(p) ==
  10 * Micro * Count({c \in {"lower", "upper", "digit", "symbol"} :
                        \/ c = "lower" /\ HasLower(p)
                        \/ c = "upper" /\ HasUpper(p)
                        \/ c = "digit" /\ HasDigit(p)
                        \/ c = "symbol" /\ HasSymbol(p)})

C6_UniquenessBonus(p) == Min((20 * Micro * UniqueChars(p)) \div Len(p), 20 * Micro)

C6_EntropyBonus(p) == Min((Len(p) * Log2Micro(getCharSetSize(p))) \div 10, 10 * Micro)

C6_Score(p) ==
  Min(100 * Micro,
      C6_LengthBonus(p) + C6_ClassBonus(p) + C6_UniquenessBonus(p) + C6_EntropyBonus(p))

\* C6: for a non-empty password the score is the clamped sum of the length,
\* class, uniqueness and entropy bonuses, and the level is very-strong iff
\* score >= 80, strong iff 60 <= score < 80, medium iff 40 <= score < 60,
\* weak iff score < 40
C6_LevelFromScore ==
  spw # <<>> =>
    /\ sreport.score = C6_Score(spw)
    /\ sreport.level = "very-strong" <=> sreport.score >= 80 * Micro
    /\ sreport.level = "strong" <=>
         (sreport.score >= 60 * Micro /\ sreport.score < 80 * Micro)
    /\ sreport.level = "medium" <=>
         (sreport.score >= 40 * Micro /\ sreport.score < 60 * Micro)
    /\ sreport.level = "weak" <=> sreport.score < 40 * Micro

C6_Witness ==
  /\ sreport.level = "strong"
  /\ sreport.score > 60 * Micro /\ sreport.score < 70 * Micro
  /\ Len(spw) >= 12
  /\ sprev.report.level = "medium"

C7_Conditions(p) ==
  << <<Len(p) < 8, MsgLength8>>,
     <<Len(p) < 12, MsgLength12>>,
     <<~HasLower(p), MsgLower>>,
     <<~HasUpper(p), MsgUpper>>,
     <<~HasDigit(p), MsgDigit>>,
     <<~HasSymbol(p), MsgSymbol>>,
     <<2 * UniqueChars(p) < Len(p), MsgUnique>> >>

C7_Holding(c) == c[1]

C7_Expected(p) ==
  LET sel == SelectSeq(C7_Conditions(p), C7_Holding)
  IN  [k \in 1..Len(sel) |-> sel[k][2]]

\* C7: for a non-empty password the feedback holds exactly the messages of
\* the conditions that hold among length<8, length<12, no lowercase, no
\* uppercase, no digit, no symbol, distinct/length < 0.5, once each and in
\* that order
C7_FeedbackExact ==
  spw # <<>> => sreport.feedback = C7_Expected(spw)

C7_Witness ==
  /\ spw = <<"a", "a", "a", "a", "a", "a", "a", "a">>
  /\ sreport.feedback = <<MsgLength12, MsgUpper, MsgDigit, MsgSymbol, MsgUnique>>

ClassCount(p) ==
  (IF HasLower(p) THEN 1 ELSE 0) + (IF HasUpper(p) THEN 1 ELSE 0)
  + (IF HasDigit(p) THEN 1 ELSE 0) + (IF HasSymbol(p) THEN 1 ELSE 0)

\* C9: appending characters that are distinct and not in a non-empty
\* password of mixed classes never decreases its score
C9_AppendNeverDecreases ==
  (sop = "fresh" /\ sprev.password # <<>> /\ ClassCount(sprev.password) >= 2) =>
    sreport.score >= sprev.report.score

-----------------------------------------------------------------------------
(* getStrengthLabel: the claim.                                            *)

\* C8: getStrengthLabel returns the table's label for each of the four
\* levels and the label of weak for every other input
C8_LabelOrWeak ==
  \A k \in 1..Len(labelLog) :
    labelLog[k].label =
      IF labelLog[k].level \in Levels THEN labels[labelLog[k].level] ELSE LabelWeak

-----------------------------------------------------------------------------
(* App.jsx: the claim.                                                     *)

C10_Displayed == strength = calculatePasswordStrength(password)

\* C10: the displayed strength is always calculatePasswordStrength of the
\* displayed password, and a step taken while all four include-flags are
\* unchecked (a generation that fails) leaves both as they were
C10_StrengthOfPassword ==
  /\ [](C10_Displayed)
  /\ [][~AnyInclude(options) => (password' = password /\ strength' = strength)]_vars

C10_Witness ==
  /\ mounted /\ pending = 0
  /\ ~AnyInclude(options)
  /\ Len(password) = 5
  /\ strength.score > 0
  /\ strength = calculatePasswordStrength(password)

=============================================================================
